---------------------------- MODULE Spec2Model ----------------------------
(***************************************************************************)
(* Adversarial perturbation generators, cluster-based representative       *)
(* perturbations and the reinforcement training loops of the clustre       *)
(* package, as state machines.                                             *)
(*                                                                         *)
(* Numbers.  Pixel values, epsilon and step sizes are fixed-point: the     *)
(* integer n stands for the real n / Scale, so the model's valid input     *)
(* range [-1, 1] is -Scale..Scale.  A tensor is modelled at one pixel      *)
(* position: a batch is a function from 1..B to the value of that pixel in *)
(* each image (every operation of the generators is elementwise across     *)
(* pixel positions; only the batch dimension is reduced).  A quotient      *)
(* a / b is kept exact as the pair <<a, b>>.                               *)
(*                                                                         *)
(* The differentiable model, the loss and the optimizers are external      *)
(* collaborators: a gradient or a loss they return is an input, drawn from *)
(* a small set each time it is computed.                                   *)
(***************************************************************************)
EXTENDS Integers, Sequences, FiniteSets, TLC

VARIABLES
  fn,              \* the function of the repository that is running
  pc,              \* its position
  images,          \* attack: the `images` tensor (rebound by pgd_single_point)
  original_image,  \* attack: pgd_single_point's clone of the input
  images_grad,     \* attack: images.grad, the gradient accumulated on `images`
  epsilon,         \* attack: the local `epsilon` (fixed-point)
  epsilon_arg,     \* attack: the epsilon the caller passed (fixed-point)
  step_size,       \* attack: step_size argument (fixed-point)
  n_epoches,       \* number of epochs / iterations requested
  e,               \* epoch / iteration counter
  i,               \* sample or minibatch counter
  perturb,         \* attack: the perturbation being built
  perturbs,        \* attack: dataset-level list of perturbations
  grad,            \* attack: d criterion / d input of the last backward pass
  n_forward,       \* attack: forward passes of the model so far
  n_backward,      \* attack: backward passes so far
  sources,         \* attack: per entry of perturbs, the input it was computed from
  prev_ret,        \* attack: what the previous call with the same arguments returned
  ret,             \* the value returned ("none" before the return)
  ret_dims,        \* attack: the dimensions the returned tensor has in front of
                   \* those of one input (<<>>: it has the shape of one input)
  variant,         \* which of the two cluster_based/reinforce.py modules runs
  attack_method,   \* calculate_k_perturbs: attack_method argument
  n_samples,       \* len(training_set)
  km_clusters,     \* calculate_k_perturbs: cluster id of every sample (0-based)
  pending,         \* calculate_k_perturbs: ids `for i in set(km_clusters)` has left
  k_points,        \* calculate_k_perturbs: member-index lists
  k_perturbs,      \* calculate_k_perturbs: FGSM representatives (`fgsm`)
  k_pgd,           \* calculate_k_perturbs: PGD representatives (`pgd`)
  attacked,        \* calculate_k_perturbs: the batches (Xk, yk) handed to the attack
  ad,              \* the AdversarialDataset object ("none" before construction)
  idx,             \* AdversarialDataset.__getitem__: last index asked for
  item,            \* AdversarialDataset.__getitem__: last (X, y) returned
  trainloader,     \* training: the clean DataLoader, [batch_size]
  adversarialloaders, \* training: the adversarial DataLoaders, each [batch_size]
  drop_last,       \* k_reinforce: drop_last argument
  train_weight,    \* k_reinforce: train_weight argument
  adversarial_weight, \* k_reinforce: adversarial_weight argument
  criterion,       \* training: the loss criterion gives an example of each origin
  device,          \* cluster_training: device argument
  cluster_ids,     \* cluster_training: adversarial_dataset.cluster_ids
  ct_args,         \* cluster_training: the caller's n_clusters and pgd_parameters["n_epoches"]
  ct_used,         \* cluster_training: the n_clusters KMeans got, the n_epoches pgd_perturbs got
  cluster_perturbs, \* cluster_training: the perturbations of the current epoch
  n_pgd_perturbs,  \* cluster_training: calls of pgd_perturbs so far
  params,          \* the model's parameters, as the version the optimizers left
  param_grad,      \* the parameters' .grad: the backward passes accumulated in it
  mode,            \* the model's mode: "train" or "eval"
  applied_grad,    \* the .grad the last optimizer step on the parameters applied
  opt_steps,       \* optimizer.step() calls so far
  epoch_steps,     \* optimizer.step() calls so far in the current epoch
  running_loss,    \* running_loss of the current epoch
  reported,        \* the training losses reported, one per finished epoch
  inputs,          \* the combined batch (X, y) of the last iteration
  w,               \* its weight vector
  losses,          \* the per-example losses criterion returned for it
  loss             \* the scalar loss of the last step

attack_vars ==
  <<images, original_image, images_grad, epsilon, epsilon_arg, step_size, perturb,
    perturbs, grad, n_forward, n_backward, ret_dims, sources, prev_ret>>

cluster_vars ==
  <<variant, attack_method, n_samples, km_clusters, pending, k_points, k_perturbs,
    k_pgd, attacked, ad, idx, item>>

train_vars ==
  <<trainloader, adversarialloaders, drop_last, train_weight, adversarial_weight,
    criterion, device, cluster_ids, ct_args, ct_used, cluster_perturbs, n_pgd_perturbs, opt_steps, epoch_steps,
    running_loss, reported, inputs, w, losses, loss, applied_grad>>

\* the state of the model every function is handed
model_vars == <<params, param_grad, mode>>

vars ==
  <<fn, pc, n_epoches, e, i, ret, attack_vars, cluster_vars, train_vars, model_vars>>

\* what no perturbation generator touches
not_attack_vars == <<cluster_vars, train_vars>>

---------------------------------------------------------------------------
(* Bounds of the model. *)

\* fixed-point resolution: the real 1.0 is Scale
Scale == 2
\* largest batch handed to a single-point generator
MaxBatch == 2
\* largest epsilon, fixed-point (so epsilon ranges over 1/Scale .. MaxEps/Scale)
MaxEps == 2
\* largest step size / optimizer update, fixed-point
MaxStep == 2
\* largest magnitude of one input-gradient entry
MaxGrad == 1
\* largest number of epochs / iterations
MaxEpoches == 2
\* largest training set
MaxSamples == 3
\* largest density of an AdversarialDataset, fixed-point
MaxDensity == 1
\* number of clusters of cluster_training (n_clusters, 100 by default)
NClusters == 2
\* batch size of cluster_training's own loader (128 in the code)
ClusterBatch == 2

PixelVals == (-Scale)..Scale
EpsVals == 1..MaxEps
StepVals == (-1)..MaxStep
GradVals == (-MaxGrad)..MaxGrad
EpochVals == 0..MaxEpoches
Batches == UNION {[1..b -> PixelVals] : b \in 1..MaxBatch}

---------------------------------------------------------------------------
(* Tensor arithmetic. *)

Abs(x) == IF x < 0 THEN -x ELSE x

\* torch.sign
Sign(x) == IF x > 0 THEN 1 ELSE IF x < 0 THEN -1 ELSE 0

\* torch.clamp(x, min=lo, max=hi): min is applied first, then max
Clamp(x, lo, hi) ==
  LET a == IF x < lo THEN lo ELSE x
  IN  IF a > hi THEN hi ELSE a

RECURSIVE SumTo(_, _)
SumTo(t, n) == IF n = 0 THEN 0 ELSE t[n] + SumTo(t, n - 1)

\* sum of a batch tensor over dim 0
Sum(t) == SumTo(t, Len(t))

\* t.mean(dim=0).sign(): the sign of sum / B, B > 0
MeanSign(t) == Sign(Sum(t))

\* x / d, kept exact
Div(x, d) == <<x, d>>

\* |q| <= a / b for a quotient q = <<n, d>> with d > 0, and b > 0
QAbsLeq(q, a, b) == Abs(q[1]) * b <= a * q[2]

\* |q| = a / b, likewise
QAbsEq(q, a, b) == Abs(q[1]) * b = a * q[2]

\* sign of a quotient with positive denominator
QSign(q) == Sign(q[1])

Zeros(t) == [b \in DOMAIN t |-> 0]

\* loss.backward(): the gradient of one loss is added to every parameter's .grad;
\* origin says which loss it was
Backward(pg, origin) == Append(pg, origin)

\* mutant of ZeroGrad: the gradients are left as they are
KeepGrad(pg) == pg

\* model.zero_grad(), or optimizer.zero_grad() of an optimizer over
\* model.parameters()
ZeroGrad(pg) == <<>>

\* n backward passes of losses of one origin, none of them preceded by a
\* zero_grad
RECURSIVE BackwardTimes(_, _, _)
BackwardTimes(pg, origin, n) ==
  IF n = 0 THEN pg ELSE Backward(BackwardTimes(pg, origin, n - 1), origin)

\* training_set[j], 0-based: a fixed dataset of (X, y) whose samples differ in X
\* (as long as there are at most 2 * Scale + 1 of them)
TrainingSet(j) == <<(j % (2 * Scale + 1)) - Scale, j % 2>>

\* the X of the first b samples, as DataLoader(dataset, batch_size=1) yields them
DatasetX(b) == [n \in 1..b |-> TrainingSet(n - 1)[1]]

---------------------------------------------------------------------------
(* Perturbation generators.                                                *)
(* clustre/attacking/on_single_point/attack.py (fgsm_single_point,         *)
(* pgd_single_point) and codes/attacking/on_single_point/cifar10/attack.py *)
(* (fgsm, maxloss), on CPU tensors (cuda=False).                           *)

\* "fgsm" and "maxloss" are the cifar10 functions; "clustre_fgsm", "fgsm_array",
\* "pgd" and "pgd_array" are the dataset-level functions of clustre's attack.py
DatasetFns == {"fgsm", "maxloss", "clustre_fgsm", "fgsm_array", "pgd", "pgd_array"}

AttackFns == {"fgsm_single_point", "pgd_single_point"} \cup DatasetFns

\* gradients of the criterion with respect to each image of a batch
Grads(t) == [DOMAIN t -> GradVals]

\* loss.backward(): the gradient is added to the tensor's .grad
Accumulate(acc, g) == [b \in DOMAIN acc |-> acc[b] + g[b]]

\* mutant of FgsmPerturb: the sign is left out, the summed .grad itself is scaled
FgsmPerturbNoSign(acc, eps) == Sum(acc) * eps

\* images.grad.data.mean(dim=0).sign().unsqueeze_(0) * epsilon
FgsmPerturb(acc, eps) == MeanSign(acc) * eps

\* torch.clamp(images + perturb, min=-1, max=1), perturb broadcast over the batch
FgsmAttackImage(imgs, p) == [b \in DOMAIN imgs |-> Clamp(imgs[b] + p, -Scale, Scale)]

\* mutant of FgsmResult: the raw difference is returned, not divided by epsilon
FgsmResultRaw(imgs, p, eps) == Div(FgsmAttackImage(imgs, p)[1] - imgs[1], Scale)

\* (attack_image - images)[0].cpu() / epsilon
FgsmResult(imgs, p, eps) == Div(FgsmAttackImage(imgs, p)[1] - imgs[1], eps)

\* (attack_image - images)[0]: the index drops the batch dimension
FgsmResultDims(imgs) == <<>>

\* fgsm_single_point: one forward pass, one backward pass, one shared perturbation
FgsmSinglePoint ==
  /\ fn = "fgsm_single_point"
  /\ pc = "start"
  /\ \E g \in Grads(images) :
       /\ grad' = g
       /\ images_grad' = Accumulate(images_grad, g)
  /\ perturb' = FgsmPerturb(images_grad', epsilon)
  /\ ret' = FgsmResult(images, perturb', epsilon)
  /\ ret_dims' = FgsmResultDims(images)
  /\ n_forward' = n_forward + 1
  /\ n_backward' = n_backward + 1
  /\ pc' = "done"
  /\ param_grad' = Backward(param_grad, "attack")
  /\ UNCHANGED params
  \* model.eval()
  /\ mode' = "eval"
  /\ UNCHANGED not_attack_vars
  /\ UNCHANGED <<fn, images, original_image, epsilon, epsilon_arg, step_size,
                 perturbs, n_epoches, e, i>>
  /\ UNCHANGED <<sources, prev_ret>>

\* fgsm_single_point called again with the same model, criterion, images, labels
\* and epsilon.  The model is in eval mode and its parameters are what they
\* were, so the forward and backward pass give the gradient of the first call;
\* images is the same tensor, requires_grad already set, and its .grad still
\* holds the first gradient
FgsmSinglePointAgain ==
  /\ fn = "fgsm_single_point"
  /\ pc = "done"
  /\ n_forward = 1
  /\ prev_ret' = ret
  /\ images_grad' = Accumulate(images_grad, grad)
  /\ perturb' = FgsmPerturb(images_grad', epsilon)
  /\ ret' = FgsmResult(images, perturb', epsilon)
  /\ ret_dims' = FgsmResultDims(images)
  /\ n_forward' = n_forward + 1
  /\ n_backward' = n_backward + 1
  /\ param_grad' = Backward(param_grad, "attack")
  /\ UNCHANGED params
  \* model.eval()
  /\ mode' = "eval"
  /\ UNCHANGED not_attack_vars
  /\ UNCHANGED <<fn, pc, images, original_image, epsilon, epsilon_arg, step_size,
                 perturbs, grad, n_epoches, e, i, sources>>

\* fgsm_single_point called on the same images tensor with other labels
\* (cuda=False: no copy is made).  The loss, and with it the gradient g, is
\* another one; images.grad still holds the gradient of the first call and
\* loss.backward() adds to it
FgsmSinglePointOtherLabels ==
  /\ fn = "fgsm_single_point"
  /\ pc = "done"
  /\ n_forward = 1
  /\ \E g \in Grads(images) :
       /\ grad' = g
       /\ images_grad' = Accumulate(images_grad, g)
  /\ perturb' = FgsmPerturb(images_grad', epsilon)
  /\ ret' = FgsmResult(images, perturb', epsilon)
  /\ ret_dims' = FgsmResultDims(images)
  /\ n_forward' = n_forward + 1
  /\ n_backward' = n_backward + 1
  /\ param_grad' = Backward(param_grad, "attack")
  /\ UNCHANGED params
  \* model.eval()
  /\ mode' = "eval"
  /\ UNCHANGED not_attack_vars
  /\ UNCHANGED <<fn, pc, images, original_image, epsilon, epsilon_arg, step_size,
                 perturbs, n_epoches, e, i, sources, prev_ret>>

\* original_image = images.clone().detach()
PgdClone ==
  /\ fn = "pgd_single_point"
  /\ pc = "start"
  /\ original_image' = images
  /\ pc' = "loop"
  /\ UNCHANGED <<params, param_grad>>
  \* model.eval()
  /\ mode' = "eval"
  /\ UNCHANGED not_attack_vars
  /\ UNCHANGED <<fn, images, images_grad, epsilon, epsilon_arg, step_size, perturb,
                 perturbs, grad, n_forward, n_backward, n_epoches, e, i, ret,
                 ret_dims>>
  /\ UNCHANGED <<sources, prev_ret>>

\* images + step_size * images.grad.mean(dim=0).sign().unsqueeze_(0)
PgdAdversarialImages(imgs, acc, step) ==
  [b \in DOMAIN imgs |-> imgs[b] + step * MeanSign(acc)]

\* mutant of PgdPerturb: the clamp to [-epsilon, epsilon] is left out
PgdPerturbNoClamp(adv, orig, eps) == [b \in DOMAIN adv |-> adv[b] - orig[b]]

\* torch.clamp(adversarial_images - original_image, min=-epsilon, max=epsilon)
PgdPerturb(adv, orig, eps) ==
  [b \in DOMAIN adv |-> Clamp(adv[b] - orig[b], -eps, eps)]

\* torch.clamp(original_image + perturb, min=-1, max=1).detach()
PgdProject(orig, p) ==
  [b \in DOMAIN orig |-> Clamp(orig[b] + p[b], -Scale, Scale)]

\* one iteration of pgd_single_point's loop
PgdIter ==
  /\ fn = "pgd_single_point"
  /\ pc = "loop"
  /\ e < n_epoches
  /\ \E acc \in {Accumulate(images_grad, g) : g \in Grads(images)} :
       perturb' = PgdPerturb(PgdAdversarialImages(images, acc, step_size),
                             original_image, epsilon)
  /\ images' = PgdProject(original_image, perturb')
  \* the rebound `images` is a new detached tensor: it has no .grad yet
  /\ images_grad' = Zeros(images)
  /\ n_forward' = n_forward + 1
  /\ n_backward' = n_backward + 1
  /\ e' = e + 1
  \* model.zero_grad(); loss = criterion(output, labels); loss.backward()
  /\ param_grad' = Backward(ZeroGrad(param_grad), "attack")
  /\ UNCHANGED <<params, mode>>
  /\ UNCHANGED not_attack_vars
  /\ UNCHANGED <<fn, pc, original_image, epsilon, epsilon_arg, step_size, perturbs,
                 grad, n_epoches, i, ret,
                 ret_dims>>
  /\ UNCHANGED <<sources, prev_ret>>

\* (images - original_image).cpu() / epsilon
PgdResult(imgs, orig, eps) == [b \in DOMAIN imgs |-> Div(imgs[b] - orig[b], eps)]

\* images - original_image keeps the shape of images, batch dimension included
PgdResultDims(imgs) == <<Len(imgs)>>

PgdReturn ==
  /\ fn = "pgd_single_point"
  /\ pc = "loop"
  /\ e = n_epoches
  /\ ret' = PgdResult(images, original_image, epsilon)
  /\ ret_dims' = PgdResultDims(images)
  /\ pc' = "done"
  /\ UNCHANGED model_vars
  /\ UNCHANGED not_attack_vars
  /\ UNCHANGED <<fn, n_epoches, e, i, images, original_image, images_grad,
                 epsilon, epsilon_arg, step_size, perturb, perturbs, grad,
                 n_forward, n_backward>>
  /\ UNCHANGED <<sources, prev_ret>>

\* cifar10 fgsm: loss = -criterion(output, label); perturb = image.grad.data.sign().
\* The sign is the real +-1 or 0, returned as it is.
CifarFgsmPerturb(g) == Div(Sign(-g), 1)

\* one sample of cifar10 fgsm's loop (DataLoader with batch_size=1)
CifarFgsmIter ==
  /\ fn = "fgsm"
  /\ pc = "loop"
  /\ i < Len(images)
  /\ epsilon' = Scale
  /\ \E g \in GradVals :
       /\ grad' = [b \in {1} |-> g]
       /\ perturb' = CifarFgsmPerturb(g)
  /\ perturbs' = Append(perturbs, perturb')
  /\ n_forward' = n_forward + 1
  /\ n_backward' = n_backward + 1
  /\ i' = i + 1
  /\ param_grad' = Backward(param_grad, "attack")
  /\ UNCHANGED params
  \* model.eval()
  /\ mode' = "eval"
  /\ UNCHANGED not_attack_vars
  /\ UNCHANGED <<fn, pc, images, original_image, images_grad, epsilon_arg,
                 step_size, n_epoches, e, ret,
                 ret_dims>>
  \* the perturbation comes from the i-th (image, label) of the loader
  /\ sources' = Append(sources, i + 1)
  /\ UNCHANGED prev_ret

\* what fgsm_single_point(model, criterion, Xk, yk) returns on a fresh batch,
\* for the gradients the model can have
FgsmOutcomes(X, eps) ==
  {FgsmResult(X, FgsmPerturb(g, eps), eps) : g \in Grads(X)}

\* what pgd_single_point can return for a batch (see C6): per image the held
\* perturbation d, |d| <= epsilon and image + d in range, divided by epsilon
PgdOutcomes(X, eps) ==
  {[b \in DOMAIN X |-> Div(d[b], eps)] :
     d \in {f \in [DOMAIN X -> (-eps)..eps] : \A b \in DOMAIN X : X[b] + f[b] \in PixelVals}}

\* one iteration of the loop of fgsm (over a loader of single samples) or of
\* fgsm_array (over zip(images, labels), with image.unsqueeze_(0)): one call of
\* fgsm_single_point on a batch of one
DatasetFgsmIter ==
  /\ fn \in {"clustre_fgsm", "fgsm_array"}
  /\ pc = "loop"
  /\ i < Len(images)
  /\ \E f \in FgsmOutcomes(<<images[i + 1]>>, epsilon) :
       /\ perturb' = f
       /\ perturbs' = Append(perturbs, f)
  /\ sources' = Append(sources, i + 1)
  /\ UNCHANGED prev_ret
  /\ n_forward' = n_forward + 1
  /\ n_backward' = n_backward + 1
  /\ i' = i + 1
  /\ param_grad' = Backward(param_grad, "attack")
  /\ UNCHANGED params
  \* model.eval()
  /\ mode' = "eval"
  /\ UNCHANGED not_attack_vars
  /\ UNCHANGED <<fn, pc, images, original_image, images_grad, epsilon, epsilon_arg,
                 step_size, grad, n_epoches, e, ret, ret_dims>>

\* one iteration of pgd's loop: one call of pgd_single_point, n_epoches
\* iterations long, on a batch of one
DatasetPgdIter ==
  /\ fn = "pgd"
  /\ pc = "loop"
  /\ i < Len(images)
  /\ \E p \in (IF n_epoches = 0
                THEN {<<Div(0, epsilon)>>}
                ELSE PgdOutcomes(<<images[i + 1]>>, epsilon)) :
       /\ perturb' = p
       /\ perturbs' = Append(perturbs, p)
  /\ sources' = Append(sources, i + 1)
  /\ UNCHANGED prev_ret
  /\ n_forward' = n_forward + n_epoches
  /\ n_backward' = n_backward + n_epoches
  /\ i' = i + 1
  /\ param_grad' = IF n_epoches = 0 THEN param_grad
                   ELSE Backward(ZeroGrad(param_grad), "attack")
  /\ UNCHANGED params
  \* model.eval()
  /\ mode' = "eval"
  /\ UNCHANGED not_attack_vars
  /\ UNCHANGED <<fn, pc, images, original_image, images_grad, epsilon, epsilon_arg,
                 step_size, grad, n_epoches, e, ret, ret_dims>>

\* pgd_array: `for i, (image, label) in zip(images, labels):`.  zip yields the
\* pairs (image, label); the target list takes the image for i and unpacks the
\* label, a 0-d tensor, into (image, label), which raises TypeError
DatasetPgdArrayLoop ==
  /\ fn = "pgd_array"
  /\ pc = "loop"
  /\ i < Len(images)
  /\ pc' = "error"
  /\ ret' = "TypeError"
  /\ UNCHANGED model_vars
  /\ UNCHANGED not_attack_vars
  /\ UNCHANGED <<fn, n_epoches, e, i, attack_vars>>

\* torch.stack(perturbs) over tensors that each have the shape dims
StackDims(tensors, dims) == <<Len(tensors)>> \o dims

\* the shape of one entry of perturbs: the cifar10 functions keep image.shape, a
\* batch of one from DataLoader(dataset, batch_size=1); fgsm and fgsm_array hold
\* what fgsm_single_point returns, pgd what pgd_single_point returns for a batch
\* of one
PerturbDims(f) ==
  IF f \in {"clustre_fgsm", "fgsm_array"} THEN FgsmResultDims(<<0>>)
  ELSE IF f = "pgd" THEN PgdResultDims(<<0>>)
  ELSE <<1>>

\* perturbs = torch.stack(perturbs); return perturbs
StackReturn ==
  /\ fn \in DatasetFns \ {"pgd_array"}
  /\ pc = "loop"
  /\ i = Len(images)
  /\ ret' = perturbs
  /\ ret_dims' = StackDims(perturbs, PerturbDims(fn))
  /\ pc' = "done"
  /\ UNCHANGED model_vars
  /\ UNCHANGED not_attack_vars
  /\ UNCHANGED <<fn, n_epoches, e, i, images, original_image, images_grad,
                 epsilon, epsilon_arg, step_size, perturb, perturbs, grad,
                 n_forward, n_backward>>
  /\ UNCHANGED <<sources, prev_ret>>

\* mutant of MaxlossUpdate: the clamp after the optimizer step is left out
MaxlossUpdateNoClamp(p, d, eps) == p + d

\* optimizer.step() on [perturb]; perturb.data.clamp_(-epsilon, epsilon)
MaxlossUpdate(p, d, eps) == Clamp(p + d, -eps, eps)

\* mutant of PerturbOptimizerStep: the optimizer was built over
\* model.parameters()
ModelOptimizerStep(p) == p + 1

\* optimizer = optim.Adam([perturb], lr=lr); optimizer.step(): the optimizer holds
\* the perturbation alone, the parameters of the model stay as they are
PerturbOptimizerStep(p) == p

\* one optimisation step of maxloss on the current sample; d is Adam's update
MaxlossStep ==
  /\ fn = "maxloss"
  /\ pc = "loop"
  /\ i < Len(images)
  /\ e < n_epoches
  /\ \E d \in (-MaxStep)..MaxStep : perturb' = MaxlossUpdate(perturb, d, epsilon)
  /\ n_forward' = n_forward + 1
  /\ n_backward' = n_backward + 1
  /\ e' = e + 1
  \* optimizer.zero_grad() clears the gradient of the perturbation alone
  /\ param_grad' = Backward(param_grad, "attack")
  /\ params' = PerturbOptimizerStep(params)
  \* model.eval()
  /\ mode' = "eval"
  /\ UNCHANGED not_attack_vars
  /\ UNCHANGED <<fn, pc, images, original_image, images_grad, epsilon, epsilon_arg,
                 step_size, perturbs, grad, n_epoches, i, ret,
                 ret_dims>>
  /\ UNCHANGED <<sources, prev_ret>>

\* perturbs.append(perturb); the next sample starts from torch.zeros(image.shape)
MaxlossAppend ==
  /\ fn = "maxloss"
  /\ pc = "loop"
  /\ i < Len(images)
  /\ e = n_epoches
  /\ perturbs' = Append(perturbs, perturb)
  /\ perturb' = IF i + 1 < Len(images) THEN 0 ELSE perturb
  /\ i' = i + 1
  /\ e' = 0
  /\ UNCHANGED model_vars
  /\ UNCHANGED not_attack_vars
  /\ UNCHANGED <<fn, pc, images, original_image, images_grad, epsilon, epsilon_arg,
                 step_size, grad, n_forward, n_backward, n_epoches, ret,
                 ret_dims>>
  \* every step on this perturbation read the i-th (image, label) of the loader
  /\ sources' = Append(sources, i + 1)
  /\ UNCHANGED prev_ret

\* the variables of calculate_k_perturbs and AdversarialDataset, not in use
ClusterIdle ==
  /\ variant = "none"
  /\ attack_method = "none"
  /\ n_samples = 0
  /\ km_clusters = <<>>
  /\ pending = {}
  /\ k_points = <<>>
  /\ k_perturbs = <<>>
  /\ k_pgd = <<>>
  /\ attacked = <<>>
  /\ ad = "none"
  /\ idx = -1
  /\ item = "none"

\* the variables of the training loops, not in use
TrainIdle ==
  /\ trainloader = [batch_size |-> 0]
  /\ adversarialloaders = <<>>
  /\ drop_last = FALSE
  /\ train_weight = 0
  /\ adversarial_weight = 0
  /\ criterion = <<>>
  /\ device = "none"
  /\ cluster_ids = <<>>
  /\ ct_args = [n_clusters |-> 0, pgd_parameters |-> 0]
  /\ ct_used = [n_clusters |-> 0, n_epoches |-> 0]
  /\ cluster_perturbs = <<>>
  /\ n_pgd_perturbs = 0
  /\ params = 0
  /\ param_grad = <<>>
  /\ mode = "train"
  /\ applied_grad = <<>>
  /\ opt_steps = 0
  /\ epoch_steps = 0
  /\ running_loss = 0
  /\ reported = <<>>
  /\ inputs = <<>>
  /\ w = <<>>
  /\ losses = <<>>
  /\ loss = 0

\* the state at the call of one of the functions fns, epsilon drawn from eps_vals
InitAttackWith(fns, eps_vals) ==
  /\ fn \in fns
  /\ images \in (IF fn \in DatasetFns
                  THEN {DatasetX(b) : b \in 1..MaxBatch}
                  ELSE Batches)
  /\ original_image = "none"
  /\ images_grad = Zeros(images)
  /\ epsilon \in eps_vals
  /\ epsilon_arg = epsilon
  /\ step_size \in (IF fn = "pgd_single_point" THEN StepVals ELSE {0})
  /\ n_epoches \in (IF fn \in {"pgd_single_point", "maxloss", "pgd", "pgd_array"}
                     THEN EpochVals ELSE {0})
  /\ e = 0
  /\ i = 0
  /\ pc = (IF fn \in DatasetFns THEN "loop" ELSE "start")
  /\ perturb = (IF fn = "maxloss" THEN 0 ELSE "none")
  /\ perturbs = <<>>
  /\ grad = "none"
  /\ n_forward = 0
  /\ n_backward = 0
  /\ sources = <<>>
  /\ prev_ret = <<>>
  /\ ret = "none"
  /\ ret_dims = <<>>
  /\ ClusterIdle
  /\ TrainIdle

InitAttack == InitAttackWith(AttackFns, EpsVals)

NextAttack ==
  \/ FgsmSinglePoint
  \/ FgsmSinglePointAgain
  \/ FgsmSinglePointOtherLabels
  \/ PgdClone
  \/ PgdIter
  \/ PgdReturn
  \/ CifarFgsmIter
  \/ MaxlossStep
  \/ MaxlossAppend
  \/ DatasetFgsmIter
  \/ DatasetPgdIter
  \/ DatasetPgdArrayLoop
  \/ StackReturn

SpecAttack == InitAttack /\ [][NextAttack]_vars

\* The single-point generators called with a negative epsilon: neither checks
\* its arguments, the call starts like any other.
NegativeEpsVals == (-MaxEps)..(-1)

InitInvalidConfig ==
  InitAttackWith({"fgsm_single_point", "pgd_single_point"}, NegativeEpsVals)

NextInvalidConfig ==
  \/ FgsmSinglePoint
  \/ PgdClone
  \/ PgdIter
  \/ PgdReturn

SpecInvalidConfig == InitInvalidConfig /\ [][NextInvalidConfig]_vars

---------------------------------------------------------------------------
(* calculate_k_perturbs and AdversarialDataset.                            *)
(* clustre/reinforcing/cluster_based/reinforce.py (variant "reinforcing")  *)
(* and clustre/adversarial_training/cluster_based/reinforce.py (variant    *)
(* "adversarial_training").  Sample indices are 0-based, as in the code.   *)
(* The attacks use their default epsilon, 0.3; the smallest epsilon of the  *)
(* fixed-point lattice stands for it.                                      *)

Variants == {"reinforcing", "adversarial_training"}

AttackMethods == {"fgsm", "maxloss", "pgd"}

Min(S) == CHOOSE m \in S : \A x \in S : m <= x

RECURSIVE Ascending(_)
Ascending(S) == IF S = {} THEN <<>> ELSE <<Min(S)>> \o Ascending(S \ {Min(S)})

\* set(km_clusters)
DistinctIds(clusters) == {clusters[j] : j \in DOMAIN clusters}

\* np.where(km_clusters == c)[0]
Where(clusters, c) == Ascending({j \in DOMAIN clusters : clusters[j] = c})

\* mutant of Gather: the batch is read by position, not through idx
GatherByPosition(members) == [n \in 1..Len(members) |-> TrainingSet(n - 1)]

\* data = [training_set[j] for j in idx]; Xk, yk = next(iter(kloader))
Gather(members) == [n \in 1..Len(members) |-> TrainingSet(members[n])]

\* the X of a batch of samples
BatchX(data) == [n \in DOMAIN data |-> data[n][1]]

\* one iteration of `for i in set(km_clusters)`, for cluster id c
ClusterIter ==
  /\ fn = "calculate_k_perturbs"
  /\ pc = "loop"
  /\ pending # {}
  \* CPython iterates a set of small non-negative ints in ascending order
  /\ \E c \in {Min(pending)} :
       LET members == Where(km_clusters, c)
           data == Gather(members)
       IN  /\ pending' = pending \ {c}
           /\ CASE variant = "reinforcing" /\ attack_method = "fgsm" ->
                     \E f \in FgsmOutcomes(BatchX(data), epsilon) :
                        /\ k_perturbs' = Append(k_perturbs, f)
                        /\ attacked' = Append(attacked, data)
                        /\ k_points' = Append(k_points, members)
                        /\ param_grad' = Backward(param_grad, "attack")
                        /\ UNCHANGED <<k_pgd, pc, ret>>
                [] variant = "reinforcing" /\ attack_method = "maxloss" ->
                     \* attack.maxloss_single_point is not defined in attack.py
                     /\ pc' = "error"
                     /\ ret' = "AttributeError"
                     /\ UNCHANGED <<k_points, k_perturbs, k_pgd, attacked, param_grad>>
                [] variant = "reinforcing" /\ attack_method \notin {"fgsm", "maxloss"} ->
                     \* no branch binds `perturbs`: perturbs.detach() fails after
                     \* k_points.append(idx)
                     /\ k_points' = Append(k_points, members)
                     /\ pc' = "error"
                     /\ ret' = "UnboundLocalError"
                     /\ UNCHANGED <<k_perturbs, k_pgd, attacked, param_grad>>
                [] variant = "adversarial_training" ->
                     \E f \in FgsmOutcomes(BatchX(data), epsilon) :
                       \E p \in PgdOutcomes(BatchX(data), epsilon) :
                        /\ k_perturbs' = Append(k_perturbs, f)
                        /\ k_pgd' = Append(k_pgd, p)
                        /\ attacked' = Append(attacked, data)
                        /\ k_points' = Append(k_points, members)
                        \* fgsm_single_point, then pgd_single_point with its
                        \* model.zero_grad() before every backward pass
                        /\ param_grad' =
                             Backward(ZeroGrad(Backward(param_grad, "attack")),
                                      "attack")
                        /\ UNCHANGED <<pc, ret>>
  /\ UNCHANGED train_vars
  /\ UNCHANGED params
  \* model.eval()
  /\ mode' = "eval"
  /\ UNCHANGED <<fn, n_epoches, e, i, attack_vars, variant, attack_method,
                 n_samples, km_clusters, ad, idx, item>>

\* torch.stack(tensors) needs tensors of one shape; a shape here is the batch
\* length of a tensor that kept its batch dimension
Stackable(tensors) ==
  \A m, n \in DOMAIN tensors : Len(tensors[m]) = Len(tensors[n])

\* torch.stack and the return statement
ClusterReturn ==
  /\ fn = "calculate_k_perturbs"
  /\ pc = "loop"
  /\ pending = {}
  /\ IF variant = "reinforcing"
       THEN /\ ret' = <<k_points, k_perturbs, "km">>
            /\ pc' = "done"
       ELSE IF Stackable(k_pgd)
              THEN /\ ret' = <<k_points, k_perturbs, k_pgd, "km">>
                   /\ pc' = "done"
              ELSE /\ ret' = "RuntimeError"
                   /\ pc' = "error"
  /\ UNCHANGED <<fn, n_epoches, e, i, attack_vars, cluster_vars, train_vars,
                 model_vars>>

\* mutant of GetNthPerturb: the membership test is `n in i`
GetNthPerturbOfMember(n, targets, perturbs_) ==
  LET hits == {m \in 1..Len(targets) :
                 m <= Len(perturbs_) /\ \E q \in DOMAIN targets[m] : targets[m][q] = n}
  IN  IF hits = {} THEN "None" ELSE perturbs_[Min(hits)]

\* _get_nth_perturb / get_nth_perturb:
\*   for i, j in zip(targets, perturbs): if i in targets: return j
\* the test asks whether the member list i is an element of targets
GetNthPerturb(n, targets, perturbs_) ==
  LET hits == {m \in 1..Len(targets) :
                 m <= Len(perturbs_) /\ \E q \in DOMAIN targets : targets[q] = targets[m]}
  IN  IF hits = {} THEN "None" ELSE perturbs_[Min(hits)]

\* mutant of AddScaled: the density is left out, the whole perturbation is added
AddUnscaled(X, density, q) == Div(X * q[2] + q[1], q[2])

\* X + density * perturb, perturb a quotient
AddScaled(X, density, q) == Div(X * q[2] + density * q[1], q[2])

\* train_target, train_perturb, train_km = reinforce.calculate_k_perturbs(...)
\* ad = AdversarialDataset(training_set, train_target, train_perturb, density)
\* (the driver scripts; they unpack the three-element return)
NewAdversarialDataset ==
  /\ fn = "calculate_k_perturbs"
  /\ pc = "done"
  /\ variant = "reinforcing"
  /\ \E density \in 0..MaxDensity :
       ad' = [targets |-> ret[1], perturbs |-> ret[2], density |-> density]
  /\ fn' = "AdversarialDataset"
  /\ UNCHANGED train_vars
  /\ UNCHANGED model_vars
  /\ UNCHANGED <<pc, n_epoches, e, i, ret, attack_vars, variant, attack_method,
                 n_samples, km_clusters, pending, k_points, k_perturbs, k_pgd,
                 attacked, idx, item>>

\* AdversarialDataset.__getitem__(idx) on CPU tensors:
\*   X, y = self.data[idx]; perturb = self._get_nth_perturb(idx)
\*   return (X + self.density * perturb), y
GetItemValue(dataset, n) ==
  <<AddScaled(TrainingSet(n)[1], dataset.density,
              GetNthPerturb(n, dataset.targets, dataset.perturbs)),
    TrainingSet(n)[2]>>

GetItem ==
  /\ fn = "AdversarialDataset"
  /\ \E n \in 0..(n_samples - 1) :
       /\ idx' = n
       /\ item' = GetItemValue(ad, n)
  /\ UNCHANGED train_vars
  /\ UNCHANGED model_vars
  /\ UNCHANGED <<fn, pc, n_epoches, e, i, ret, attack_vars, variant, attack_method,
                 n_samples, km_clusters, pending, k_points, k_perturbs, k_pgd,
                 attacked, ad>>

AttackIdle ==
  /\ ret_dims = <<>>
  /\ images = <<>>
  /\ original_image = "none"
  /\ images_grad = <<>>
  /\ epsilon_arg = epsilon
  /\ step_size = 0
  /\ perturb = "none"
  /\ perturbs = <<>>
  /\ grad = "none"
  /\ n_forward = 0
  /\ n_backward = 0
  /\ sources = <<>>
  /\ prev_ret = <<>>

InitCluster ==
  /\ fn = "calculate_k_perturbs"
  /\ pc = "loop"
  /\ variant \in Variants
  /\ attack_method \in AttackMethods
  /\ n_samples \in 1..MaxSamples
  \* KMeans(n_clusters=k).fit_predict: an id in 0..k-1 per sample, k <= N
  /\ \E k \in 1..n_samples : km_clusters \in [0..(n_samples - 1) -> 0..(k - 1)]
  /\ pending = DistinctIds(km_clusters)
  /\ k_points = <<>>
  /\ k_perturbs = <<>>
  /\ k_pgd = <<>>
  /\ attacked = <<>>
  /\ ad = "none"
  /\ idx = -1
  /\ item = "none"
  /\ epsilon = Min(EpsVals)
  /\ AttackIdle
  /\ n_epoches = 0
  /\ e = 0
  /\ i = 0
  /\ ret = "none"
  /\ TrainIdle

NextCluster ==
  \/ ClusterIter
  \/ ClusterReturn
  \/ NewAdversarialDataset
  \/ GetItem

SpecCluster == InitCluster /\ [][NextCluster]_vars

---------------------------------------------------------------------------
(* The training loops: k_reinforce of                                      *)
(* clustre/reinforcing/cluster_based/reinforce.py (variant "reinforcing",  *)
(* one adversarial loader, zipped with the clean one), k_reinforce of      *)
(* clustre/adversarial_training/cluster_based/reinforce.py (variant        *)
(* "adversarial_training", a list of adversarial loaders), and              *)
(* cluster_training of clustre/adversarial_training/_cluster.py.           *)
(* The model, the criterion and the optimizer are collaborators: the       *)
(* criterion's losses are inputs, params counts the updates the optimizer  *)
(* made.  Loaders are read in dataset order; every loader reads the same   *)
(* n_samples samples.                                                      *)

TrainFns == {"k_reinforce", "cluster_training", "fgsm_reinforce"}

\* (train_weight, adversarial_weight); the defaults are 1 and 2
WeightPairs == {<<1, 2>>, <<1, 1>>, <<2, 1>>, <<2, 2>>}

\* the values one per-example loss takes
LossVals == {0, 1}

Devices == {"None", "cpu"}

\* len(loader) of a DataLoader over n samples
NumBatches(n, batch_size) == (n + batch_size - 1) \div batch_size

\* the sample indices of minibatch m (0-based) of a loader over n samples
BatchIndices(n, batch_size, m) ==
  [q \in 1..(Min({n, (m + 1) * batch_size}) - m * batch_size) |->
     m * batch_size + q - 1]

\* (images, labels) of minibatch m of the clean loader; src 0 tags the origin
CleanBatch(n, batch_size, m) ==
  LET members == BatchIndices(n, batch_size, m)
  IN  [q \in DOMAIN members |->
         [X |-> Div(TrainingSet(members[q])[1], 1),
          y |-> TrainingSet(members[q])[2],
          src |-> 0]]

\* (adver_images, adver_labels) of minibatch m of the k-th adversarial loader,
\* a DataLoader over the AdversarialDataset; src k tags the origin
AdverBatch(dataset, n, batch_size, m, k) ==
  LET members == BatchIndices(n, batch_size, m)
  IN  [q \in DOMAIN members |->
         [X |-> GetItemValue(dataset, members[q])[1],
          y |-> GetItemValue(dataset, members[q])[2],
          src |-> k]]

\* mutant of ZipWeights: the comparison is `i <= len(labels)`
ZipWeightsOffByOne(n_labels, n_adver, tw, aw) ==
  [k \in 1..(n_labels + n_adver) |-> IF k - 1 <= n_labels THEN tw ELSE aw]

\* [train_weight if i < len(labels) else adversarial_weight
\*  for i in range(len(labels) + len(adver_labels))]
ZipWeights(n_labels, n_adver, tw, aw) ==
  [k \in 1..(n_labels + n_adver) |-> IF k - 1 < n_labels THEN tw ELSE aw]

\* torch.cat(X, 0) over the minibatches drawn from advers[1..k]
RECURSIVE CatAdvers(_, _, _, _, _)
CatAdvers(dataset, n, loaders, m, k) ==
  IF k = 0 THEN <<>>
  ELSE CatAdvers(dataset, n, loaders, m, k - 1)
         \o AdverBatch(dataset, n, loaders[k].batch_size, m, k)

\* w = [train_weight] * len(labels); then w += [adversarial_weight] * len(yp)
\* for every adversarial minibatch
ListWeights(n_labels, n_adver, tw, aw) ==
  [k \in 1..n_labels |-> tw] \o [k \in 1..n_adver |-> aw]

\* the criteria considered: a loss for a clean example and a loss for an
\* adversarial one, the same through a run
Criteria == [1..2 -> LossVals]

\* criterion(output, y) with reduction="none": one loss per example
PerExampleLoss(batch, l) ==
  [k \in DOMAIN batch |-> IF batch[k].src = 0 THEN l[1] ELSE l[2]]

\* torch.dot
Dot(a, b) == Sum([k \in DOMAIN a |-> a[k] * b[k]])

\* the representative-perturbation table the trainers read: the samples in two
\* clusters by parity, one normalised perturbation per cluster
TrainTargets(n) ==
  LET clusters == [j \in 0..(n - 1) |-> j % 2]
  IN  [c \in 1..Cardinality(DistinctIds(clusters)) |-> Where(clusters, c - 1)]

TrainPerturbs(n) ==
  [c \in 1..Len(TrainTargets(n)) |-> Div(IF c = 1 THEN 1 ELSE -1, 1)]

\* for e in range(n_epoches): running_loss = 0 (and, with a list of loaders,
\* advers = [iter(i) for i in adversarialloaders])
KReinforceEpoch ==
  /\ fn = "k_reinforce"
  /\ pc = "epoch"
  /\ e < n_epoches
  /\ running_loss' = 0
  /\ epoch_steps' = 0
  /\ i' = 0
  /\ pc' = "batch"
  /\ UNCHANGED <<fn, n_epoches, e, ret, attack_vars, cluster_vars>>
  /\ UNCHANGED <<trainloader, adversarialloaders, drop_last, train_weight,
                 adversarial_weight, criterion, device, cluster_ids, ct_args, ct_used, cluster_perturbs,
                 n_pgd_perturbs, params, param_grad, mode, applied_grad,
                 opt_steps, reported, inputs, w, losses,
                 loss>>

\* optimizer.zero_grad(); loss = torch.dot(criterion(output, y), w);
\* loss.backward(); optimizer.step(); running_loss += loss.item()
TrainOn(batch, weights) ==
  LET l == PerExampleLoss(batch, criterion)
  IN  /\ losses' = l
      /\ loss' = Dot(l, weights)
      /\ param_grad' = Backward(ZeroGrad(param_grad), "train")
      /\ applied_grad' = Backward(ZeroGrad(param_grad), "train")
      /\ params' = params + 1
      /\ UNCHANGED mode
      /\ opt_steps' = opt_steps + 1
      /\ epoch_steps' = epoch_steps + 1
      /\ running_loss' = running_loss + Dot(l, weights)

\* one iteration of `for i, (...) in enumerate(zip(trainloader,
\* adversarialloader))` of the variant with one adversarial loader
KReinforceZipStep ==
  /\ fn = "k_reinforce"
  /\ variant = "reinforcing"
  /\ pc = "batch"
  /\ i < NumBatches(n_samples, trainloader.batch_size)
  /\ i < NumBatches(n_samples, adversarialloaders[1].batch_size)
  /\ LET clean == CleanBatch(n_samples, trainloader.batch_size, i)
         adver == AdverBatch(ad, n_samples, adversarialloaders[1].batch_size, i, 1)
         weights == ZipWeights(Len(clean), Len(adver), train_weight,
                               adversarial_weight)
     IN  /\ inputs' = clean \o adver
         /\ w' = weights
         /\ IF \/ ~drop_last
               \/ Len(weights) = trainloader.batch_size
                                   + adversarialloaders[1].batch_size
              THEN TrainOn(clean \o adver, weights)
              ELSE UNCHANGED <<losses, loss, params, param_grad, mode, applied_grad, opt_steps, epoch_steps,
                               running_loss>>
  /\ i' = i + 1
  /\ UNCHANGED <<fn, pc, n_epoches, e, ret, attack_vars, cluster_vars>>
  /\ UNCHANGED <<trainloader, adversarialloaders, drop_last, train_weight,
                 adversarial_weight, criterion, device, cluster_ids, ct_args, ct_used, cluster_perturbs,
                 n_pgd_perturbs, reported>>

\* one iteration of `for i, (images, labels) in enumerate(trainloader)` of the
\* variant with a list of adversarial loaders; next(adver) on an exhausted
\* loader raises StopIteration, which nothing catches
KReinforceListStep ==
  /\ fn = "k_reinforce"
  /\ variant = "adversarial_training"
  /\ pc = "batch"
  /\ i < NumBatches(n_samples, trainloader.batch_size)
  /\ IF \E k \in DOMAIN adversarialloaders :
          i >= NumBatches(n_samples, adversarialloaders[k].batch_size)
       THEN /\ pc' = "error"
            /\ ret' = "StopIteration"
            /\ UNCHANGED <<i, inputs, w, losses, loss, params, param_grad, mode,
                           applied_grad, opt_steps, epoch_steps,
                           running_loss>>
       ELSE LET clean == CleanBatch(n_samples, trainloader.batch_size, i)
                adver == CatAdvers(ad, n_samples, adversarialloaders, i,
                                   Len(adversarialloaders))
                weights == ListWeights(Len(clean), Len(adver), train_weight,
                                       adversarial_weight)
            IN  /\ inputs' = clean \o adver
                /\ w' = weights
                /\ TrainOn(clean \o adver, weights)
                /\ i' = i + 1
                /\ UNCHANGED <<pc, ret>>
  /\ UNCHANGED <<fn, n_epoches, e, attack_vars, cluster_vars>>
  /\ UNCHANGED <<trainloader, adversarialloaders, drop_last, train_weight,
                 adversarial_weight, criterion, device, cluster_ids, ct_args, ct_used, cluster_perturbs,
                 n_pgd_perturbs, reported>>

\* the loop over the minibatches has nothing left to read
Exhausted ==
  \/ i >= NumBatches(n_samples, trainloader.batch_size)
  \/ /\ variant = "reinforcing"
     /\ i >= NumBatches(n_samples, adversarialloaders[1].batch_size)

\* the else clause of the minibatch loop:
\*   print(f"\tTraining loss: {running_loss/len(trainloader)}")
KReinforceEndEpoch ==
  /\ fn = "k_reinforce"
  /\ pc = "batch"
  /\ Exhausted
  /\ reported' = Append(reported,
                        Div(running_loss,
                            NumBatches(n_samples, trainloader.batch_size)))
  /\ e' = e + 1
  /\ pc' = "epoch"
  /\ UNCHANGED <<fn, n_epoches, i, ret, attack_vars, cluster_vars>>
  /\ UNCHANGED <<trainloader, adversarialloaders, drop_last, train_weight,
                 adversarial_weight, criterion, device, cluster_ids, ct_args, ct_used, cluster_perturbs,
                 n_pgd_perturbs, params, param_grad, mode, applied_grad,
                 opt_steps, epoch_steps, running_loss, inputs, w,
                 losses, loss>>

\* return model
KReinforceReturn ==
  /\ fn = "k_reinforce"
  /\ pc = "epoch"
  /\ e = n_epoches
  /\ pc' = "done"
  /\ ret' = "model"
  /\ UNCHANGED <<fn, n_epoches, e, i, attack_vars, cluster_vars, train_vars,
                 model_vars>>

\* AdversarialDataset(model, trainloader.dataset, transform=...): cluster_training
\* passes no n_clusters, so KMeans is built with the default of
\* AdversarialDataset.__init__ (100; NClusters here), whatever the caller gave
DatasetNClusters(n_clusters_arg) == NClusters

\* pgd_perturbs(..., n_epoches=n_epoches): the step count is the number of
\* training epochs, pgd_parameters is not read
PgdNEpoches(training_epoches, pgd_n_epoches) == training_epoches

\* pgd_perturbs(model, criterion, centroids_X, centroids_y, epsilon, ...): one
\* perturbation per centroid, every entry within [-epsilon, epsilon]
PgdPerturbsOutcomes(eps) == [0..(NClusters - 1) -> {-eps, 0, eps}]

\* for e in range(n_epoches): cluster_perturbs = pgd_perturbs(...);
\* running_loss = 0.  centroids_X is bound only under `if device is not None`
ClusterTrainingEpoch ==
  /\ fn = "cluster_training"
  /\ pc = "epoch"
  /\ e < n_epoches
  /\ IF device = "None"
       THEN /\ pc' = "error"
            /\ ret' = "UnboundLocalError"
            /\ UNCHANGED <<cluster_perturbs, n_pgd_perturbs, running_loss, i,
                           param_grad, epoch_steps, ct_used>>
       ELSE /\ cluster_perturbs' \in PgdPerturbsOutcomes(epsilon)
            /\ param_grad' = Backward(param_grad, "attack")
            /\ n_pgd_perturbs' = n_pgd_perturbs + 1
            /\ ct_used' = [ct_used EXCEPT
                             !.n_epoches = PgdNEpoches(n_epoches, ct_args.pgd_parameters)]
            /\ running_loss' = 0
            /\ epoch_steps' = 0
            /\ i' = 0
            /\ pc' = "batch"
            /\ UNCHANGED ret
  /\ UNCHANGED <<fn, n_epoches, e, attack_vars, cluster_vars>>
  /\ UNCHANGED <<trainloader, adversarialloaders, drop_last, train_weight,
                 adversarial_weight, criterion, device, cluster_ids, ct_args, params, mode, applied_grad, opt_steps,
                 reported, inputs, w, losses, loss>>

\* mutant of ToDevice: the move hands back a zeroed tensor
ToDeviceZeroed(t) == [c \in DOMAIN t |-> 0]

\* cluster_perturbs.to(device): the same values on the device
ToDevice(t) == t

\* images + cluster_perturbs[cluster_idx.numpy()].reshape(images.shape) for
\* minibatch m of the loader over the AdversarialDataset of _cluster.py
PerturbedBatch(n, m, ids, table) ==
  LET members == BatchIndices(n, ClusterBatch, m)
  IN  [q \in DOMAIN members |->
         [X |-> Div(TrainingSet(members[q])[1] + table[ids[members[q]]], 1),
          y |-> TrainingSet(members[q])[2],
          src |-> 1]]

\* one iteration of `for i, (images, labels, cluster_idx) in
\* enumerate(adversarialloader)`; criterion reduces to one scalar loss, the mean
\* of the losses of the perturbed examples
ClusterTrainingStep ==
  /\ fn = "cluster_training"
  /\ pc = "batch"
  /\ i < NumBatches(n_samples, ClusterBatch)
  /\ cluster_perturbs' = ToDevice(cluster_perturbs)
  /\ inputs' = PerturbedBatch(n_samples, i, cluster_ids, ToDevice(cluster_perturbs))
  /\ loss' = criterion[2]
  /\ running_loss' = running_loss + criterion[2]
  \* optimizer.zero_grad(); ...; loss.backward(); optimizer.step()
  /\ param_grad' = Backward(ZeroGrad(param_grad), "train")
  /\ applied_grad' = Backward(ZeroGrad(param_grad), "train")
  /\ params' = params + 1
  /\ UNCHANGED mode
  /\ opt_steps' = opt_steps + 1
  /\ epoch_steps' = epoch_steps + 1
  /\ i' = i + 1
  /\ UNCHANGED <<fn, pc, n_epoches, e, ret, attack_vars, cluster_vars>>
  /\ UNCHANGED <<trainloader, adversarialloaders, drop_last, train_weight,
                 adversarial_weight, criterion, device, cluster_ids, ct_args, ct_used, n_pgd_perturbs,
                 reported, w, losses>>

\* the else clause of the minibatch loop, with a log:
\*   log.info(f"\tTraining loss: {running_loss/len(trainloader)}")
ClusterTrainingEndEpoch ==
  /\ fn = "cluster_training"
  /\ pc = "batch"
  /\ i >= NumBatches(n_samples, ClusterBatch)
  /\ reported' = Append(reported,
                        Div(running_loss,
                            NumBatches(n_samples, trainloader.batch_size)))
  /\ e' = e + 1
  /\ pc' = "epoch"
  /\ UNCHANGED <<fn, n_epoches, i, ret, attack_vars, cluster_vars>>
  /\ UNCHANGED <<trainloader, adversarialloaders, drop_last, train_weight,
                 adversarial_weight, criterion, device, cluster_ids, ct_args, ct_used, cluster_perturbs,
                 n_pgd_perturbs, params, param_grad, mode, applied_grad,
                 opt_steps, epoch_steps, running_loss, inputs, w,
                 losses, loss>>

\* return model
ClusterTrainingReturn ==
  /\ fn = "cluster_training"
  /\ pc = "epoch"
  /\ e = n_epoches
  /\ pc' = "done"
  /\ ret' = "model"
  /\ UNCHANGED <<fn, n_epoches, e, i, attack_vars, cluster_vars, train_vars,
                 model_vars>>

---------------------------------------------------------------------------
(* fgsm_reinforce, clustre/reinforcing/fgsm_based/reinforce.py.            *)

\* for e in range(n_epoches): running_loss = 0
FgsmReinforceEpoch ==
  /\ fn = "fgsm_reinforce"
  /\ pc = "epoch"
  /\ e < n_epoches
  /\ running_loss' = 0
  /\ epoch_steps' = 0
  /\ i' = 0
  /\ pc' = "batch"
  /\ UNCHANGED <<fn, n_epoches, e, ret, attack_vars, cluster_vars, model_vars>>
  /\ UNCHANGED <<trainloader, adversarialloaders, drop_last, train_weight,
                 adversarial_weight, criterion, device, cluster_ids, ct_args, ct_used, cluster_perturbs,
                 n_pgd_perturbs, applied_grad, opt_steps, reported, inputs, w,
                 losses, loss>>

\* what attack.fgsm_array(model, criterion, images, labels) can return for a
\* minibatch: per image what fgsm_single_point returns for a batch of one
FgsmArrayOutcomes(batch) ==
  {f \in [DOMAIN batch -> UNION {FgsmOutcomes(<<batch[q].X[1]>>, epsilon) :
                                   q \in DOMAIN batch}] :
     \A q \in DOMAIN batch : f[q] \in FgsmOutcomes(<<batch[q].X[1]>>, epsilon)}

\* images + 0.2 * perturbs, perturbs quotients; src 1 tags the origin
FgsmAdverImages(batch, fgsm_perturbs) ==
  [q \in DOMAIN batch |->
     [X |-> Div(5 * fgsm_perturbs[q][2] * batch[q].X[1] + fgsm_perturbs[q][1],
                5 * fgsm_perturbs[q][2]),
      y |-> batch[q].y,
      src |-> 1]]

\* one iteration of `for i, (images, labels) in enumerate(trainloader)`.
\* fgsm_array runs one backward pass per image; the criterion averages, and the
\* batch holds as many clean as adversarial examples, so loss is counted in
\* halves: criterion[1] + criterion[2]
FgsmReinforceStep ==
  /\ fn = "fgsm_reinforce"
  /\ pc = "batch"
  /\ i < NumBatches(n_samples, trainloader.batch_size)
  /\ LET clean == CleanBatch(n_samples, trainloader.batch_size, i)
         generated == BackwardTimes(param_grad, "attack", Len(clean))
     IN  /\ \E f \in FgsmArrayOutcomes(clean) :
              inputs' = clean \o FgsmAdverImages(clean, f)
         \* optimizer.zero_grad(); ...; loss.backward(); optimizer.step()
         /\ param_grad' = Backward(ZeroGrad(generated), "train")
         /\ applied_grad' = Backward(ZeroGrad(generated), "train")
  /\ loss' = criterion[1] + criterion[2]
  /\ running_loss' = running_loss + criterion[1] + criterion[2]
  /\ params' = params + 1
  \* fgsm_array calls fgsm_single_point, which calls model.eval(); nothing
  \* sets the training mode again
  /\ mode' = "eval"
  /\ opt_steps' = opt_steps + 1
  /\ epoch_steps' = epoch_steps + 1
  /\ i' = i + 1
  /\ UNCHANGED <<fn, pc, n_epoches, e, ret, attack_vars, cluster_vars>>
  /\ UNCHANGED <<trainloader, adversarialloaders, drop_last, train_weight,
                 adversarial_weight, criterion, device, cluster_ids, ct_args, ct_used, cluster_perturbs,
                 n_pgd_perturbs, reported, w, losses>>

\* the else clause of the minibatch loop:
\*   print(f"\tTraining loss: {running_loss/len(trainloader)}")
FgsmReinforceEndEpoch ==
  /\ fn = "fgsm_reinforce"
  /\ pc = "batch"
  /\ i >= NumBatches(n_samples, trainloader.batch_size)
  /\ reported' = Append(reported,
                        Div(running_loss,
                            2 * NumBatches(n_samples, trainloader.batch_size)))
  /\ e' = e + 1
  /\ pc' = "epoch"
  /\ UNCHANGED <<fn, n_epoches, i, ret, attack_vars, cluster_vars, model_vars>>
  /\ UNCHANGED <<trainloader, adversarialloaders, drop_last, train_weight,
                 adversarial_weight, criterion, device, cluster_ids, ct_args, ct_used, cluster_perturbs,
                 n_pgd_perturbs, applied_grad, opt_steps, epoch_steps, running_loss, inputs, w,
                 losses, loss>>

\* return model
FgsmReinforceReturn ==
  /\ fn = "fgsm_reinforce"
  /\ pc = "epoch"
  /\ e = n_epoches
  /\ pc' = "done"
  /\ ret' = "model"
  /\ UNCHANGED <<fn, n_epoches, e, i, attack_vars, cluster_vars, train_vars,
                 model_vars>>

\* the n_clusters and pgd_parameters["n_epoches"] a caller of cluster_training
\* passes: the values of the defaults, or others
CallerArgs ==
  {[n_clusters |-> NClusters, pgd_parameters |-> MaxEpoches],
   [n_clusters |-> 1, pgd_parameters |-> 1]}

\* the loaders a caller can pass: DataLoader(dataset, batch_size=b)
Loaders == {[batch_size |-> b] : b \in 1..MaxBatch}

InitTrain ==
  /\ fn \in TrainFns
  /\ pc = "epoch"
  /\ n_samples \in 1..MaxSamples
  /\ n_epoches \in EpochVals
  /\ trainloader \in Loaders
  /\ criterion \in Criteria
  /\ IF fn = "k_reinforce"
       THEN /\ variant \in Variants
            /\ adversarialloaders \in
                 (IF variant = "reinforcing"
                    THEN [1..1 -> Loaders]
                    ELSE [1..1 -> Loaders] \cup [1..2 -> Loaders])
            /\ drop_last \in BOOLEAN
            /\ \E tw \in WeightPairs :
                 /\ train_weight = tw[1]
                 /\ adversarial_weight = tw[2]
            /\ \E density \in {0, MaxDensity} :
                 ad = [targets |-> TrainTargets(n_samples),
                       perturbs |-> TrainPerturbs(n_samples),
                       density |-> density]
            /\ device = "none"
            /\ cluster_ids = <<>>
            /\ ct_args = [n_clusters |-> 0, pgd_parameters |-> 0]
            /\ ct_used = [n_clusters |-> 0, n_epoches |-> 0]
       ELSE /\ variant = "none"
            /\ adversarialloaders = <<>>
            /\ drop_last = FALSE
            /\ train_weight = 0
            /\ adversarial_weight = 0
            /\ ad = "none"
            /\ IF fn = "cluster_training"
                 THEN /\ device \in Devices
                      \* km.predict(d): a cluster id per sample
                      /\ ct_args \in CallerArgs
                      /\ ct_used = [n_clusters |-> DatasetNClusters(ct_args.n_clusters), n_epoches |-> 0]
                      /\ cluster_ids \in [0..(n_samples - 1) -> 0..(ct_used.n_clusters - 1)]
                 ELSE /\ device = "none"
                      /\ cluster_ids = <<>>
                      /\ ct_args = [n_clusters |-> 0, pgd_parameters |-> 0]
                      /\ ct_used = [n_clusters |-> 0, n_epoches |-> 0]
  /\ cluster_perturbs = <<>>
  /\ n_pgd_perturbs = 0
  /\ params = 0
  \* the model is fresh, or comes from a perturbation generator
  \* (calculate_k_perturbs), which leaves gradients and the evaluation mode;
  \* k_reinforce of adversarial_training calls model.train() before its loop
  /\ \E generated \in BOOLEAN :
       /\ param_grad = (IF generated THEN <<"attack">> ELSE <<>>)
       /\ mode = (IF generated /\ ~(fn = "k_reinforce" /\ variant = "adversarial_training")
                   THEN "eval" ELSE "train")
  /\ applied_grad = <<>>
  /\ opt_steps = 0
  /\ epoch_steps = 0
  /\ running_loss = 0
  /\ reported = <<>>
  /\ inputs = <<>>
  /\ w = <<>>
  /\ losses = <<>>
  /\ loss = 0
  /\ attack_method = "none"
  /\ km_clusters = <<>>
  /\ pending = {}
  /\ k_points = <<>>
  /\ k_perturbs = <<>>
  /\ k_pgd = <<>>
  /\ attacked = <<>>
  /\ idx = -1
  /\ item = "none"
  /\ epsilon = Min(EpsVals)
  /\ AttackIdle
  /\ e = 0
  /\ i = 0
  /\ ret = "none"

NextTrain ==
  \/ KReinforceEpoch
  \/ KReinforceZipStep
  \/ KReinforceListStep
  \/ KReinforceEndEpoch
  \/ KReinforceReturn
  \/ ClusterTrainingEpoch
  \/ ClusterTrainingStep
  \/ ClusterTrainingEndEpoch
  \/ ClusterTrainingReturn
  \/ FgsmReinforceEpoch
  \/ FgsmReinforceStep
  \/ FgsmReinforceEndEpoch
  \/ FgsmReinforceReturn

SpecTrain == InitTrain /\ [][NextTrain]_vars

---------------------------------------------------------------------------
(* Properties of the perturbation generators. *)

\* the perturbation pgd_single_point holds: current perturbed input - original
PgdHeld == [b \in DOMAIN images |-> images[b] - original_image[b]]

PgdRunning == fn = "pgd_single_point" /\ pc \in {"loop", "done"}

\* C6, as stated: in pgd_single_point the held perturbation (images -
\* original_image) has absolute value <= epsilon after every iteration, and the
\* returned perturbation has absolute value <= epsilon too.
C6_PgdReturnWithinEpsilon ==
  PgdRunning =>
    /\ \A b \in DOMAIN images : Abs(PgdHeld[b]) <= epsilon
    /\ pc = "done" => \A b \in DOMAIN ret : QAbsLeq(ret[b], epsilon, Scale)

\* C6, amended: for inputs in the valid range [-1, 1] the held perturbation has
\* absolute value <= epsilon after every iteration; the returned perturbation is
\* the held one divided by epsilon, so its absolute value is <= 1.
C6_PgdHeldWithinEpsilon ==
  PgdRunning =>
    /\ \A b \in DOMAIN images : Abs(PgdHeld[b]) <= epsilon
    /\ pc = "done" =>
         \A b \in DOMAIN ret :
           /\ ret[b][1] = PgdHeld[b]
           /\ ret[b][2] = epsilon
           /\ QAbsLeq(ret[b], 1, 1)

\* C6 witness: a finished run whose step exceeded epsilon, so that the clamp
\* decided the held perturbation, which sits on the bound.
C6_Witness ==
  /\ fn = "pgd_single_point"
  /\ pc = "done"
  /\ e >= 1
  /\ Abs(step_size) > epsilon
  /\ \E b \in DOMAIN images : Abs(PgdHeld[b]) = epsilon

FgsmSingleDone == fn = "fgsm_single_point" /\ pc = "done"

CifarFgsmDone == fn = "fgsm" /\ pc = "done"

C9_FgsmSignOfGradient ==
  /\ FgsmSingleDone =>
       /\ n_forward = 1 /\ n_backward = 1
       /\ QSign(ret) = MeanSign(grad)
       /\ MeanSign(grad) # 0 => QAbsEq(ret, epsilon_arg, Scale)
  /\ (fn = "fgsm" /\ i > 0) =>
       /\ n_forward = i /\ n_backward = i
       /\ QSign(perturbs[i]) = Sign(grad[1])
       /\ grad[1] # 0 => QAbsEq(perturbs[i], epsilon_arg, Scale)

---------------------------------------------------------------------------
(* Properties of calculate_k_perturbs and AdversarialDataset. *)

\* the samples listed in a sequence of indices
Members(points) == {points[q] : q \in DOMAIN points}

\* C1: AdversarialDataset.__getitem__(idx) returns data[idx] plus density times
\* the perturbation of the cluster that contains idx, with the label of
\* data[idx] unchanged.
C1_ItemUsesOwnCluster ==
  (fn = "AdversarialDataset" /\ idx >= 0) =>
    \A m \in DOMAIN ad.targets :
      idx \in Members(ad.targets[m]) =>
        item = <<AddScaled(TrainingSet(idx)[1], ad.density, ad.perturbs[m]),
                 TrainingSet(idx)[2]>>

\* C2: with an attack method it implements, calculate_k_perturbs returns; its
\* k_points are non-empty, pairwise disjoint, cover 0..N-1 and are one per
\* distinct cluster id, whatever the ids and the cluster sizes; the i-th
\* perturbation is computed from exactly the samples of k_points[i].
C2_KPointsPartition ==
  (fn = "calculate_k_perturbs" /\ attack_method = "fgsm") =>
    /\ pc # "error"
    /\ pc = "done" =>
         /\ Len(ret[1]) = Cardinality(DistinctIds(km_clusters))
         /\ Len(ret[2]) = Len(ret[1])
         /\ \A m \in DOMAIN ret[1] : ret[1][m] # <<>>
         /\ \A m, n \in DOMAIN ret[1] :
              m # n => Members(ret[1][m]) \cap Members(ret[1][n]) = {}
         /\ UNION {Members(ret[1][m]) : m \in DOMAIN ret[1]} = 0..(n_samples - 1)
         /\ \A m \in DOMAIN ret[1] :
              attacked[m] = [q \in DOMAIN ret[1][m] |-> TrainingSet(ret[1][m][q])]

---------------------------------------------------------------------------
(* Properties of the training loops. *)

\* the examples of a combined batch that came from origin k, in batch order
FromSource(batch, k) ==
  LET IsFrom(x) == x.src = k
  IN  SelectSeq(batch, IsFrom)

\* the step just taken read minibatch i of every loader
KReinforceStepped == fn = "k_reinforce" /\ pc = "batch" /\ i' = i + 1

\* clean batch size + adversarial batch size(s)
FullCombinedSize ==
  trainloader.batch_size
    + Sum([k \in DOMAIN adversarialloaders |-> adversarialloaders[k].batch_size])

\* C3: in every training step of k_reinforce the combined batch is the clean
\* minibatch followed by one minibatch of each adversarial source, the weight
\* vector has one entry per combined example, train_weight for a clean example
\* and adversarial_weight for an adversarial one, the scalar loss is the dot
\* product of the per-example losses with the weights, and a batch trained on
\* takes exactly one optimizer step.
C3_WeightedCombinedBatch ==
  [][KReinforceStepped =>
       /\ FromSource(inputs', 0) = CleanBatch(n_samples, trainloader.batch_size, i)
       /\ \A k \in DOMAIN adversarialloaders :
            FromSource(inputs', k)
              = AdverBatch(ad, n_samples, adversarialloaders[k].batch_size, i, k)
       /\ \A j, k \in DOMAIN inputs' : j < k => inputs'[j].src <= inputs'[k].src
       /\ \A k \in DOMAIN inputs' : inputs'[k].src \in 0..Len(adversarialloaders)
       /\ DOMAIN w' = DOMAIN inputs'
       /\ \A k \in DOMAIN w' :
            w'[k] = IF inputs'[k].src = 0 THEN train_weight ELSE adversarial_weight
       /\ opt_steps' \in {opt_steps, opt_steps + 1}
       /\ opt_steps' = opt_steps + 1 =>
            /\ DOMAIN losses' = DOMAIN w'
            /\ loss' = Dot(losses', w')
            /\ running_loss' = running_loss + loss'
            /\ params' # params
       /\ opt_steps' = opt_steps =>
            /\ params' = params
            /\ running_loss' = running_loss
  ]_vars

\* C3 witness: a second step was trained on a batch of a clean minibatch and
\* the minibatches of two adversarial sources, with different weights and a
\* loss on a clean and on an adversarial example.
C3_Witness ==
  /\ fn = "k_reinforce"
  /\ opt_steps >= 2
  /\ train_weight # adversarial_weight
  /\ \E j, k \in DOMAIN inputs :
       /\ inputs[j].src = 0 /\ losses[j] = 1 /\ w[j] = train_weight
       /\ inputs[k].src = 2 /\ losses[k] = 1 /\ w[k] = adversarial_weight
  /\ loss = Dot(losses, w)

\* min(number of clean batches, number of batches of each adversarial source)
ShortestLoader ==
  Min({NumBatches(n_samples, trainloader.batch_size)}
        \cup {NumBatches(n_samples, adversarialloaders[k].batch_size) :
                k \in DOMAIN adversarialloaders})

\* C4: every k_reinforce variant stops an epoch at the shortest loader: no
\* exception escapes, every epoch reports its loss, the model is returned, and
\* with drop_last off the optimizer steps number n_epoches x the batches of the
\* shortest loader.
C4_StopAtShortest ==
  fn = "k_reinforce" =>
    /\ pc # "error"
    /\ pc = "done" =>
         /\ ret = "model"
         /\ Len(reported) = n_epoches
         /\ ~drop_last => opt_steps = n_epoches * ShortestLoader

\* C5: with drop_last on, no k_reinforce variant trains on a combined batch whose
\* size differs from clean batch size + adversarial batch size(s): the batch
\* changes neither the parameters nor the running loss; with drop_last off every
\* combined batch is trained on.
C5_DropLastSkipsShortBatch ==
  [][KReinforceStepped =>
       /\ (drop_last /\ Len(inputs') # FullCombinedSize) =>
            /\ params' = params
            /\ opt_steps' = opt_steps
            /\ running_loss' = running_loss
       /\ ~drop_last => opt_steps' = opt_steps + 1
  ]_vars

TrainingRun == fn \in TrainFns /\ pc \in {"epoch", "batch"}

\* C10, as stated: in every training run the cluster assignment and the
\* representative perturbations are computed once before the first epoch and
\* never recomputed or modified by an epoch or a training step.
C10_PerturbationsComputedOnce ==
  /\ [](fn = "cluster_training" => n_pgd_perturbs <= 1)
  /\ [][TrainingRun =>
          /\ ad' = ad
          /\ cluster_ids' = cluster_ids
          /\ (fn = "cluster_training" /\ e > 0) =>
               cluster_perturbs' = cluster_perturbs]_vars

\* C10, amended: in every training run the cluster assignment is fixed before
\* the first epoch and never modified; k_reinforce never modifies the
\* representative perturbations of its AdversarialDataset; cluster_training
\* computes its representative perturbations anew at the start of every epoch
\* (one pgd_perturbs call per epoch started, none before) and no training step
\* modifies them; the parameters change only by an optimizer step.
C10_AssignmentReadOnly ==
  /\ []((fn = "cluster_training" /\ pc = "epoch") => n_pgd_perturbs = e)
  /\ []((fn = "cluster_training" /\ pc = "batch") => n_pgd_perturbs = e + 1)
  /\ [](fn = "k_reinforce" => n_pgd_perturbs = 0)
  /\ [][TrainingRun =>
          /\ ad' = ad
          /\ cluster_ids' = cluster_ids
          /\ cluster_perturbs' # cluster_perturbs =>
               /\ fn = "cluster_training"
               /\ pc = "epoch"
               /\ pc' = "batch"
               /\ n_pgd_perturbs' = n_pgd_perturbs + 1
               /\ params' = params
          /\ params' # params => opt_steps' = opt_steps + 1]_vars

\* C10 witness: cluster_training is in its second epoch, with perturbations
\* that are not zero, and has taken a training step in it.
C10_Witness ==
  /\ fn = "cluster_training"
  /\ pc = "batch"
  /\ e = 1
  /\ i >= 1
  /\ n_pgd_perturbs = 2
  /\ \E c \in DOMAIN cluster_perturbs : cluster_perturbs[c] # 0
  /\ opt_steps >= 2

---------------------------------------------------------------------------
(* Properties of the model's state under the perturbation generators. *)

\* every perturbation generator and calculate_k_perturbs, from any of their
\* starting states
InitGenerate == InitAttack \/ InitCluster

NextGenerate == NextAttack \/ NextCluster

SpecGenerate == InitGenerate /\ [][NextGenerate]_vars

Generating == fn \in AttackFns \/ fn = "calculate_k_perturbs"

\* C11: no perturbation generator and no step of calculate_k_perturbs changes
\* the value of a model parameter: the values after the call are those before
\* it, and the optimizer step inside maxloss updates the perturbation alone.
C11_GeneratorsKeepParams ==
  /\ [](Generating => params = 0)
  /\ [][Generating => params' = params]_vars

\* C11 witness: maxloss has returned after optimizer steps that moved a
\* perturbation away from zero, with backward passes through the model.
C11_Witness ==
  /\ fn = "maxloss"
  /\ pc = "done"
  /\ n_backward >= 2
  /\ Len(param_grad) >= 2
  /\ \E k \in DOMAIN ret : ret[k] # 0
  /\ params = 0

\* C12: fgsm_single_point and pgd_single_point each return one perturbation
\* with the shape of a single input, whatever the batch size, so that the
\* calculate_k_perturbs that calls both stacks the representatives of clusters of
\* different sizes.
C12_SinglePointShape ==
  /\ (fn \in {"fgsm_single_point", "pgd_single_point"} /\ pc = "done") =>
       ret_dims = <<>>
  /\ (fn = "calculate_k_perturbs" /\ variant = "adversarial_training") =>
       pc # "error"

---------------------------------------------------------------------------
\* C13: each dataset-level generator (fgsm, fgsm_array, pgd, pgd_array, maxloss)
\* given N inputs returns exactly N perturbations in input order, the i-th one
\* computed from the i-th input and label only; in particular none of them fails.
C13_OnePerturbationPerInput ==
  /\ (fn \in DatasetFns /\ pc = "done") =>
        /\ Len(ret) = Len(images)
        /\ sources = [n \in 1..Len(images) |-> n]
  /\ fn \in DatasetFns => pc # "error"

---------------------------------------------------------------------------
\* the algorithms that produced the perturbations calculate_k_perturbs holds:
\* k_perturbs is filled by fgsm_single_point, k_pgd by pgd_single_point
AlgorithmsRun ==
  (IF k_perturbs # <<>> THEN {"fgsm"} ELSE {}) \cup
  (IF k_pgd # <<>> THEN {"pgd"} ELSE {})

\* C14: calculate_k_perturbs, asked for "fgsm" or "maxloss", returns the triple
\* (k_points, k_perturbs, km), and the perturbations were computed by the named
\* algorithm and no other.
C14_TripleByNamedAlgorithm ==
  (fn = "calculate_k_perturbs" /\ attack_method \in {"fgsm", "maxloss"}) =>
     /\ pc # "error"
     /\ pc = "done" => (Len(ret) = 3 /\ AlgorithmsRun = {attack_method})

---------------------------------------------------------------------------
\* C15: a generator called with an invalid configuration, here a negative
\* epsilon, fails before any forward pass of the model: it performs none and
\* never runs to completion and returns a perturbation.
C15_InvalidConfigFailsFast ==
  (fn \in {"fgsm_single_point", "pgd_single_point"} /\ epsilon_arg < 0) =>
     (n_forward = 0 /\ pc # "done")

---------------------------------------------------------------------------
\* C16: the device is a pure configuration flag: whatever device cluster_training
\* is given, None included, the run does not fail and returns after n_epoches
\* epochs, each with one perturbation computation and one optimizer step per
\* minibatch.
C16_DeviceIsPureConfiguration ==
  fn = "cluster_training" =>
     /\ pc # "error"
     /\ pc = "done" =>
          /\ n_pgd_perturbs = n_epoches
          /\ Len(reported) = n_epoches
          /\ opt_steps = n_epoches * NumBatches(n_samples, ClusterBatch)

---------------------------------------------------------------------------
---------------------------------------------------------------------------
\* two quotients with positive denominators are the same number
QEq(a, b) == a[1] * b[2] = b[1] * a[2]

\* C18: in k_reinforce with adversarial_weight = train_weight = w and a density
\* of zero, every adversarial example of a step's batch equals the clean sample
\* it was made from, and the step's scalar loss is w times the plain sum of the
\* per-example losses of the combined batch.
C18_EqualWeightsZeroDensity ==
  [][(/\ KReinforceStepped
      /\ opt_steps' = opt_steps + 1
      /\ train_weight = adversarial_weight
      /\ ad.density = 0) =>
       /\ \A k \in DOMAIN adversarialloaders :
            LET members == BatchIndices(n_samples, adversarialloaders[k].batch_size, i)
                adver == FromSource(inputs', k)
            IN  /\ Len(adver) = Len(members)
                /\ \A q \in DOMAIN members :
                     QEq(adver[q].X, Div(TrainingSet(members[q])[1], 1))
       /\ loss' = train_weight * Sum(losses')
  ]_vars

\* C18 witness: a step with both weights 2 and density zero was taken on a
\* batch holding adversarial examples whose perturbation is not zero, with a
\* loss that is not zero.
C18_Witness ==
  /\ fn = "k_reinforce" /\ pc = "batch" /\ opt_steps >= 1
  /\ train_weight = 2 /\ adversarial_weight = 2
  /\ ad.density = 0
  /\ FromSource(inputs, 1) # <<>>
  /\ \A c \in DOMAIN ad.perturbs : ad.perturbs[c][1] # 0
  /\ Sum(losses) >= 2
  /\ loss = 2 * Sum(losses)

---------------------------------------------------------------------------
\* the dataset yields a single minibatch through every loader
SingleMinibatch ==
  /\ NumBatches(n_samples, trainloader.batch_size) = 1
  /\ \A k \in DOMAIN adversarialloaders :
       NumBatches(n_samples, adversarialloaders[k].batch_size) = 1

\* C19: a k_reinforce run with n_epoches = 1 on a dataset that yields a single
\* minibatch, for any batch sizes and either value of drop_last, returns after
\* at least one optimizer step, with parameters that differ from the initial
\* ones and, as the reported loss, the loss of the step that was taken.
C19_SingleBatchRunTrains ==
  (fn = "k_reinforce" /\ n_epoches = 1 /\ SingleMinibatch) =>
     /\ pc # "error"
     /\ pc = "done" =>
          /\ opt_steps >= 1
          /\ params # 0
          /\ reported = <<Div(loss, 1)>>

---------------------------------------------------------------------------
\* C20: in fgsm_reinforce and in both k_reinforce variants the parameter
\* gradient an optimizer step applies is the gradient of that step's training
\* loss only: what a perturbation generator or the previous step accumulated was
\* cleared before the step's backward pass.
C20_StepAppliesTrainingGradientOnly ==
  (fn \in {"fgsm_reinforce", "k_reinforce"} /\ opt_steps >= 1) =>
     applied_grad = <<"train">>

\* C20 witness: the second step of fgsm_reinforce, on a minibatch of two, after
\* two backward passes of fgsm_array in the same iteration and the step before
C20_Witness ==
  /\ fn = "fgsm_reinforce" /\ pc = "batch" /\ opt_steps = 2
  /\ Len(inputs) = 4
  /\ \E q \in DOMAIN inputs : inputs[q].src = 1 /\ ~QEq(inputs[q].X, inputs[1].X)
  /\ applied_grad = <<"train">>

---------------------------------------------------------------------------
\* the step just taken ended an epoch of a training loop and reported its loss
EpochEnded == fn \in TrainFns /\ pc = "batch" /\ pc' = "epoch"

\* the step just taken started an epoch of a training loop
EpochStarted == fn \in TrainFns /\ pc = "epoch" /\ pc' = "batch"

\* running_loss counts in this many parts of one loss (fgsm_reinforce: halves)
LossUnit == IF fn = "fgsm_reinforce" THEN 2 ELSE 1

\* C21: at the end of every epoch of k_reinforce, fgsm_reinforce and
\* cluster_training the reported training loss is the sum of the losses of the
\* optimizer steps of that epoch divided by the number of those steps, and the
\* running loss is reset to zero at the start of each epoch.
C21_ReportedLossIsMeanOverSteps ==
  [][/\ EpochStarted => running_loss' = 0
     /\ EpochEnded =>
          /\ Len(reported') = Len(reported) + 1
          /\ LET r == reported'[Len(reported')]
             IN  LossUnit * r[1] * epoch_steps = running_loss * r[2]
  ]_vars

---------------------------------------------------------------------------
\* C22: every optimizer step of fgsm_reinforce and of both k_reinforce variants
\* is taken with the model in training mode, whatever mode a perturbation
\* generator left it in.
C22_StepsInTrainingMode ==
  [][(fn \in {"fgsm_reinforce", "k_reinforce"} /\ opt_steps' = opt_steps + 1) =>
       mode' = "train"]_vars

---------------------------------------------------------------------------
\* C23: what fgsm_single_point returns depends only on the values of its
\* arguments: also on an images tensor a previous call was given, with other
\* labels, it returns what it returns on a fresh copy of images, the
\* perturbation made from the gradient of this call alone.
C23_FgsmIndependentOfEarlierCalls ==
  (fn = "fgsm_single_point" /\ pc = "done") =>
     ret = FgsmResult(images, FgsmPerturb(grad, epsilon), epsilon)

---------------------------------------------------------------------------
\* C24: cluster_training clusters the training data into the n_clusters the
\* caller passed, and every per-epoch PGD runs with the step count of the
\* caller's pgd_parameters: no such argument is replaced by a default or by an
\* unrelated argument.
C24_CallerParametersUsed ==
  fn = "cluster_training" =>
     /\ ct_used.n_clusters = ct_args.n_clusters
     /\ n_pgd_perturbs >= 1 => ct_used.n_epoches = ct_args.pgd_parameters

=============================================================================
